---- MODULE Spec2Model ----
(***************************************************************************)
(* Devnovate blog platform: the post moderation workflow, the engagement   *)
(* bookkeeping (views, likes, comments) and the paginated listings.        *)
(*                                                                         *)
(* The state is the blogs collection and the users collection of the       *)
(* store, the server clock, the response of the last request, the         *)
(* requests that have passed their checks and not yet saved, and the       *)
(* answer of the last listing.  Every route handler of                     *)
(* server/routes/blogs.js and server/routes/admin.js is an operator from   *)
(* (store, request) to (response code, store), and one action applies it.  *)
(*                                                                         *)
(* Spec       requests handled one at a time: the moderation workflow      *)
(* EngageSpec requests handled one at a time: views, likes and comments    *)
(* RaceSpec   like requests whose read and save steps interleave, and the   *)
(*            visibility toggle                                            *)
(* ModerationSpec  approve and reject requests that interleave             *)
(* UserSpec   user administration requests that interleave                 *)
(* DeleteSpec deletion, and the requests that name a deleted post          *)
(* PageSpec   the listings and their pagination blocks                     *)
(* ReadSpec   the public reads: listings, sort orders and get-by-slug      *)
(***************************************************************************)
EXTENDS Integers, Sequences, FiniteSets, TLC

VARIABLES blogs, used, users, now, resp, inflight, listing

vars == <<blogs, used, users, now, resp, inflight, listing>>

(***************************************************************************)
(* Bounds of the model.                                                    *)
(***************************************************************************)
MaxTime == 2
MaxViews == 2
MaxComments == 2
MaxInflight == 2
MaxPage == 3

(***************************************************************************)
(* Identities.                                                             *)
(***************************************************************************)
Users == {"u1", "u2", "u3", "a1"}
Anon == "anon"
Callers == Users \cup {Anon}
BlogIds == {"b1"}

NoUser == "nobody"
NoDate == 0

Statuses == {"draft", "pending", "published", "rejected", "hidden"}

(***************************************************************************)
(* Strings.  Titles and slugs are sequences of one-character strings, so   *)
(* that the slug derivation is computed character by character.            *)
(***************************************************************************)
UpperCase == <<"A","B","C","D","E","F","G","H","I","J","K","L","M",
               "N","O","P","Q","R","S","T","U","V","W","X","Y","Z">>
LowerCase == <<"a","b","c","d","e","f","g","h","i","j","k","l","m",
               "n","o","p","q","r","s","t","u","v","w","x","y","z">>
Digits == {"0","1","2","3","4","5","6","7","8","9"}

ToLowerChar(c) ==
  IF \E i \in 1..26 : UpperCase[i] = c
  THEN LowerCase[CHOOSE i \in 1..26 : UpperCase[i] = c]
  ELSE c

ToLowerCase(s) == [i \in 1..Len(s) |-> ToLowerChar(s[i])]

IsSlugChar(c) == c \in Digits \/ \E i \in 1..26 : LowerCase[i] = c

\* .replace(/[^a-z0-9]+/g, '-') : every maximal run of other characters
\* becomes one hyphen
RECURSIVE ReplaceRuns(_, _, _)
ReplaceRuns(s, i, acc) ==
  IF i > Len(s) THEN acc
  ELSE IF IsSlugChar(s[i]) THEN ReplaceRuns(s, i + 1, Append(acc, s[i]))
  ELSE IF i > 1 /\ ~IsSlugChar(s[i - 1]) THEN ReplaceRuns(s, i + 1, acc)
  ELSE ReplaceRuns(s, i + 1, Append(acc, "-"))

\* .replace(/(^-|-$)/g, '') : one leading and one trailing hyphen go
StripHyphens(s) ==
  LET a == IF Len(s) > 0 /\ s[1] = "-" THEN Tail(s) ELSE s
  IN  IF Len(a) > 0 /\ a[Len(a)] = "-" THEN SubSeq(a, 1, Len(a) - 1) ELSE a

Slugify(title) == StripHyphens(ReplaceRuns(ToLowerCase(title), 1, <<>>))

RECURSIVE Repeat(_, _)
Repeat(s, n) == IF n = 0 THEN "" ELSE s \o Repeat(s, n - 1)

RECURSIVE RepeatSeq(_, _)
RepeatSeq(s, n) == IF n = 0 THEN <<>> ELSE s \o RepeatSeq(s, n - 1)

\* Math.ceil(total / limit)
Ceil(total, limit) ==
  IF total % limit = 0 THEN total \div limit ELSE (total \div limit) + 1

\* content.split(' ').length
SplitLength(content) == 1 + Cardinality({i \in 1..Len(content) : content[i] = " "})

(***************************************************************************)
(* Request inputs.                                                         *)
(***************************************************************************)
TitleHelloBang == <<"H","e","l","l","o",","," ","W","o","r","l","d","!">>
TitleSecond == <<"S","e","c","o","n","d"," ","P","o","s","t"," ","2">>
TitleShort == <<"H","i">>

CreateTitles == {TitleHelloBang, TitleShort}
EditTitles == {TitleSecond, TitleShort}

SlugOther == <<"o","t","h","e","r">>

TitleMin == 10
TitleMax == 200
ReasonMin == 10
ReasonMax == 500
CommentMin == 1
CommentMax == 1000

ReasonNone == ""
Reason5 == "short"
Reason9 == "too short"
Reason10 == "0123456789"
Reason500 == Repeat("0123456789", 50)
Reason501 == Reason500 \o "x"
Reasons == {Reason5, Reason9, Reason10, Reason500, Reason501}

Feedbacks == {"absent", "string", "number"}

CommentTexts == {"", "nice"}

\* post bodies, as sequences of characters: 100 characters in 21 pieces,
\* 400 characters in 201 pieces, and 3 characters
ContentMin == 100
ContentBrief == RepeatSeq(<<"w", "o", "r", "d", " ">>, 20)
ContentLong == RepeatSeq(<<"a", " ">>, 200)
ContentTiny == <<"t", "o", "o">>

(***************************************************************************)
(* Users collection: role and active flag.                                 *)
(***************************************************************************)
IsAdmin(c) == c \in Users /\ users[c].role = "admin"
IsActive(c) == c \in Users /\ users[c].isActive

\* middleware protect: 401 without a user or for a deactivated user
Protect(c) == c \in Users /\ users[c].isActive

\* router.use(protect, admin)
AdminGate(c) ==
  IF ~Protect(c) THEN "Unauthenticated"
  ELSE IF users[c].role # "admin" THEN "Unauthorized"
  ELSE "ok"

(***************************************************************************)
(* Blog documents.                                                         *)
(***************************************************************************)
Existing == DOMAIN blogs

Categories == {"Technology", "Lifestyle"}
DefaultCategory == "Technology"

NewBlog(title, author) ==
  [title |-> title, slug |-> <<>>, author |-> author, status |-> "pending",
   category |-> DefaultCategory, content |-> ContentBrief, readTime |-> 0,
   views |-> 0, likes |-> <<>>, comments |-> <<>>,
   publishedAt |-> NoDate, approvedBy |-> NoUser, approvedAt |-> NoDate,
   rejectionReason |-> ReasonNone]

\* blogSchema.virtual('estimatedReadTime')
WordsPerMinute == 200
estimatedReadTime(doc) == Ceil(SplitLength(doc.content), WordsPerMinute)

\* blogSchema.pre('save'): modified is the set of paths the handler assigned
PreSave(doc, modified, t) ==
  LET d1 == IF "title" \in modified /\ doc.slug = <<>>
            THEN [doc EXCEPT !.slug = Slugify(doc.title)] ELSE doc
      d2 == IF "content" \in modified
            THEN [d1 EXCEPT !.readTime = estimatedReadTime(d1)] ELSE d1
  IN  IF "status" \in modified /\ d2.status = "published" /\ d2.publishedAt = NoDate
      THEN [d2 EXCEPT !.publishedAt = t] ELSE d2

\* unique index on slug
SlugTaken(bs, slug, except) ==
  \E b \in DOMAIN bs : b # except /\ bs[b].slug = slug

Result(code, bs) == [code |-> code, blogs |-> bs]

Put(bs, id, doc) == [b \in (DOMAIN bs) \cup {id} |-> IF b = id THEN doc ELSE bs[b]]

Remove(bs, id) == [b \in (DOMAIN bs) \ {id} |-> bs[b]]

NewId == CHOOSE id \in BlogIds \ used : TRUE

(***************************************************************************)
(* POST /api/blogs                                                         *)
(***************************************************************************)
CreateBlog(c, title) ==
  IF ~Protect(c) THEN Result("Unauthenticated", blogs)
  ELSE IF Len(title) < TitleMin \/ Len(title) > TitleMax
  THEN Result("ValidationFailed", blogs)
  ELSE LET doc == PreSave(NewBlog(title, c), {"title", "content", "author", "status"}, now)
       IN  IF SlugTaken(blogs, doc.slug, NewId) THEN Result("Error", blogs)
           ELSE Result("ok", Put(blogs, NewId, doc))

(***************************************************************************)
(* PUT /api/blogs/:id.  A request body gives each field as the empty set   *)
(* (absent) or a singleton (present).                                      *)
(***************************************************************************)
Elem(S) == CHOOSE x \in S : TRUE

BodyStatuses == {"draft", "published", "archived"}
BodySlugs == {SlugOther}
\* another user, and the id of no user
GhostUser == "u9"
BodyAuthors == {"u2", GhostUser}

EmptyBody ==
  [title |-> {}, content |-> {}, status |-> {}, slug |-> {}, author |-> {},
   views |-> {}, likes |-> {}, comments |-> {}]

\* bodies with at most one content field
ContentBodies ==
  {EmptyBody}
    \cup {[EmptyBody EXCEPT !.title = {t}] : t \in EditTitles}
    \cup {[EmptyBody EXCEPT !.slug = {g}] : g \in BodySlugs}
    \cup {[EmptyBody EXCEPT !.author = {u}] : u \in BodyAuthors}

\* bodies that overwrite an engagement field
EngagementBodies ==
  {[EmptyBody EXCEPT !.views = {0}],
   [EmptyBody EXCEPT !.likes = {<<>>}],
   [EmptyBody EXCEPT !.comments = {<<>>}]}

\* each content body, alone or with a status field, and the engagement bodies
Bodies ==
  ContentBodies
    \cup {[body EXCEPT !.status = {st}] : body \in ContentBodies, st \in BodyStatuses}
    \cup EngagementBodies

\* the $set of every field the body carries
ApplySet(doc, body) ==
  [doc EXCEPT
     !.title = IF body.title = {} THEN @ ELSE Elem(body.title),
     !.content = IF body.content = {} THEN @ ELSE Elem(body.content),
     !.status = IF body.status = {} THEN @ ELSE Elem(body.status),
     !.slug = IF body.slug = {} THEN @ ELSE Elem(body.slug),
     !.author = IF body.author = {} THEN @ ELSE Elem(body.author),
     !.views = IF body.views = {} THEN @ ELSE Elem(body.views),
     !.likes = IF body.likes = {} THEN @ ELSE Elem(body.likes),
     !.comments = IF body.comments = {} THEN @ ELSE Elem(body.comments)]

\* Blog.findByIdAndUpdate(id, body, { new: true, runValidators: true }):
\* no save hook runs; the enum validator and the unique index do
FindByIdAndUpdate(bs, id, body) ==
  IF body.status # {} /\ Elem(body.status) \notin Statuses THEN Result("Error", bs)
  ELSE IF body.slug # {} /\ SlugTaken(bs, Elem(body.slug), id) THEN Result("Error", bs)
  ELSE Result("ok", Put(bs, id, ApplySet(bs[id], body)))

\* as UpdateBlog, without the demotion of a published post
UpdateBlogKeepsStatus(c, id, body) ==
  IF ~Protect(c) THEN Result("Unauthenticated", blogs)
  ELSE IF body.title # {} /\ (Len(Elem(body.title)) < TitleMin \/ Len(Elem(body.title)) > TitleMax)
  THEN Result("ValidationFailed", blogs)
  ELSE IF body.content # {} /\ Len(Elem(body.content)) < ContentMin
  THEN Result("ValidationFailed", blogs)
  ELSE IF id \notin Existing THEN Result("NotFound", blogs)
  ELSE IF users[c].role # "admin" /\ blogs[id].author # c
  THEN Result("Unauthorized", blogs)
  ELSE FindByIdAndUpdate(blogs, id, body)

UpdateBlog(c, id, body) ==
  IF ~Protect(c) THEN Result("Unauthenticated", blogs)
  ELSE IF body.title # {} /\ (Len(Elem(body.title)) < TitleMin \/ Len(Elem(body.title)) > TitleMax)
  THEN Result("ValidationFailed", blogs)
  ELSE IF body.content # {} /\ Len(Elem(body.content)) < ContentMin
  THEN Result("ValidationFailed", blogs)
  ELSE IF id \notin Existing THEN Result("NotFound", blogs)
  ELSE IF users[c].role # "admin" /\ blogs[id].author # c
  THEN Result("Unauthorized", blogs)
  ELSE LET body1 == IF blogs[id].status = "published"
                    THEN [body EXCEPT !.status = {"pending"}] ELSE body
       IN  FindByIdAndUpdate(blogs, id, body1)

(***************************************************************************)
(* DELETE /api/blogs/:id                                                   *)
(***************************************************************************)
\* as DeleteBlog, without the author-or-admin check
DeleteBlogAnyCaller(c, id) ==
  IF ~Protect(c) THEN Result("Unauthenticated", blogs)
  ELSE IF id \notin Existing THEN Result("NotFound", blogs)
  ELSE Result("ok", Remove(blogs, id))

DeleteBlog(c, id) ==
  IF ~Protect(c) THEN Result("Unauthenticated", blogs)
  ELSE IF id \notin Existing THEN Result("NotFound", blogs)
  ELSE IF users[c].role # "admin" /\ blogs[id].author # c
  THEN Result("Unauthorized", blogs)
  ELSE Result("ok", Remove(blogs, id))

(***************************************************************************)
(* Engagement: blogSchema.methods and their routes.                        *)
(***************************************************************************)
IndexOf(s, x) ==
  IF \E i \in 1..Len(s) : s[i] = x
  THEN CHOOSE i \in 1..Len(s) : s[i] = x /\ \A j \in 1..(i - 1) : s[j] # x
  ELSE 0

Splice1(s, i) == SubSeq(s, 1, i - 1) \o SubSeq(s, i + 1, Len(s))

toggleLike(doc, userId, t) ==
  LET likeIndex == IndexOf(doc.likes, userId)
      d == IF likeIndex = 0
           THEN [doc EXCEPT !.likes = Append(@, userId)]
           ELSE [doc EXCEPT !.likes = Splice1(@, likeIndex)]
  IN  PreSave(d, {"likes"}, t)

addComment(doc, userId, content, t) ==
  PreSave([doc EXCEPT !.comments = Append(@, [user |-> userId, content |-> content])],
          {"comments"}, t)

incrementViews(doc, t) == PreSave([doc EXCEPT !.views = @ + 1], {"views"}, t)

\* POST /api/blogs/:id/like
LikeBlog(c, id) ==
  IF ~Protect(c) THEN Result("Unauthenticated", blogs)
  ELSE IF id \notin Existing THEN Result("NotFound", blogs)
  ELSE IF blogs[id].status # "published" THEN Result("InvalidState", blogs)
  ELSE Result("ok", Put(blogs, id, toggleLike(blogs[id], c, now)))

\* as CommentBlog, without the published check
CommentBlogAnyStatus(c, id, content) ==
  IF ~Protect(c) THEN Result("Unauthenticated", blogs)
  ELSE IF Len(content) < CommentMin \/ Len(content) > CommentMax
  THEN Result("ValidationFailed", blogs)
  ELSE IF id \notin Existing THEN Result("NotFound", blogs)
  ELSE Result("ok", Put(blogs, id, addComment(blogs[id], c, content, now)))

\* POST /api/blogs/:id/comments
CommentBlog(c, id, content) ==
  IF ~Protect(c) THEN Result("Unauthenticated", blogs)
  ELSE IF Len(content) < CommentMin \/ Len(content) > CommentMax
  THEN Result("ValidationFailed", blogs)
  ELSE IF id \notin Existing THEN Result("NotFound", blogs)
  ELSE IF blogs[id].status # "published" THEN Result("InvalidState", blogs)
  ELSE Result("ok", Put(blogs, id, addComment(blogs[id], c, content, now)))

\* GET /api/blogs/:slug behind optionalAuth: req.user is set for any known
\* user, active or not
\* as FindPublishedBySlug, without the status in the filter
FindBySlugAnyStatus(slug) == {b \in Existing : blogs[b].slug = slug}

\* Blog.findOne({ slug, status: 'published' })
FindPublishedBySlug(slug) ==
  {b \in Existing : blogs[b].slug = slug /\ blogs[b].status = "published"}

ViewBlog(c, slug) ==
  IF FindPublishedBySlug(slug) = {} THEN Result("NotFound", blogs)
  ELSE LET id == Elem(FindPublishedBySlug(slug))
       IN  IF c \in Users
           THEN Result("ok", Put(blogs, id, incrementViews(blogs[id], now)))
           ELSE Result("ok", blogs)

(***************************************************************************)
(* Moderation: server/routes/admin.js                                      *)
(***************************************************************************)
\* as ApproveBlog, without the pending check
ApproveBlogAnyStatus(c, id, feedback) ==
  IF AdminGate(c) # "ok" THEN Result(AdminGate(c), blogs)
  ELSE IF feedback = "number" THEN Result("ValidationFailed", blogs)
  ELSE IF id \notin Existing THEN Result("NotFound", blogs)
  ELSE LET d == [blogs[id] EXCEPT !.status = "published", !.publishedAt = now,
                                  !.approvedBy = c, !.approvedAt = now]
       IN  Result("ok", Put(blogs, id,
                   PreSave(d, {"status", "publishedAt", "approvedBy", "approvedAt"}, now)))

\* as ApproveBlog, leaving the approver unrecorded
ApproveBlogNoApprover(c, id, feedback) ==
  IF AdminGate(c) # "ok" THEN Result(AdminGate(c), blogs)
  ELSE IF feedback = "number" THEN Result("ValidationFailed", blogs)
  ELSE IF id \notin Existing THEN Result("NotFound", blogs)
  ELSE IF blogs[id].status # "pending" THEN Result("InvalidState", blogs)
  ELSE LET d == [blogs[id] EXCEPT !.status = "published", !.publishedAt = now]
       IN  Result("ok", Put(blogs, id, PreSave(d, {"status", "publishedAt"}, now)))

\* PUT /api/admin/blogs/:id/approve
ApproveBlog(c, id, feedback) ==
  IF AdminGate(c) # "ok" THEN Result(AdminGate(c), blogs)
  ELSE IF feedback = "number" THEN Result("ValidationFailed", blogs)
  ELSE IF id \notin Existing THEN Result("NotFound", blogs)
  ELSE IF blogs[id].status # "pending" THEN Result("InvalidState", blogs)
  ELSE LET d == [blogs[id] EXCEPT !.status = "published", !.publishedAt = now,
                                  !.approvedBy = c, !.approvedAt = now]
       IN  Result("ok", Put(blogs, id,
                   PreSave(d, {"status", "publishedAt", "approvedBy", "approvedAt"}, now)))

\* as RejectBlog, with the length bounds exclusive
RejectBlogExclusiveBounds(c, id, reason) ==
  IF AdminGate(c) # "ok" THEN Result(AdminGate(c), blogs)
  ELSE IF Len(reason) <= ReasonMin \/ Len(reason) >= ReasonMax
  THEN Result("ValidationFailed", blogs)
  ELSE IF id \notin Existing THEN Result("NotFound", blogs)
  ELSE IF blogs[id].status # "pending" THEN Result("InvalidState", blogs)
  ELSE LET d == [blogs[id] EXCEPT !.status = "rejected", !.rejectionReason = reason]
       IN  Result("ok", Put(blogs, id, PreSave(d, {"status", "rejectionReason"}, now)))

\* PUT /api/admin/blogs/:id/reject
RejectBlog(c, id, reason) ==
  IF AdminGate(c) # "ok" THEN Result(AdminGate(c), blogs)
  ELSE IF Len(reason) < ReasonMin \/ Len(reason) > ReasonMax
  THEN Result("ValidationFailed", blogs)
  ELSE IF id \notin Existing THEN Result("NotFound", blogs)
  ELSE IF blogs[id].status # "pending" THEN Result("InvalidState", blogs)
  ELSE LET d == [blogs[id] EXCEPT !.status = "rejected", !.rejectionReason = reason]
       IN  Result("ok", Put(blogs, id, PreSave(d, {"status", "rejectionReason"}, now)))

\* sendBlogStatusEmail: the transport sends the mail or throws; the error is
\* logged and thrown again
MailOutcomes == {"delivered", "sendFails"}

sendBlogStatusEmail(mail) == IF mail = "sendFails" THEN "thrown" ELSE "sent"

\* as NotifyAuthor, with the error leaving the try block
NotifyAuthorRethrows(doc, mail) ==
  IF doc.author \notin DOMAIN users THEN "thrown" ELSE sendBlogStatusEmail(mail)

\* try { author = User.findById(blog.author); sendBlogStatusEmail(author.email,
\* ...) } catch { console.error }: reading author.email of a missing author
\* throws inside the try block
NotifyAuthor(doc, mail) ==
  LET outcome == IF doc.author \notin DOMAIN users THEN "thrown"
                 ELSE sendBlogStatusEmail(mail)
  IN  IF outcome = "thrown" THEN "logged" ELSE outcome

\* the rest of the approve and reject routes after blog.save(): r is the
\* result so far; an error that escapes the handler is answered 500
ThenNotify(r, id, mail) ==
  IF r.code # "ok" THEN [code |-> r.code, blogs |-> r.blogs, mail |-> "none"]
  ELSE LET n == NotifyAuthor(r.blogs[id], mail)
       IN  [code |-> IF n = "thrown" THEN "Error" ELSE "ok", blogs |-> r.blogs, mail |-> n]

ApproveRoute(c, id, feedback, mail) == ThenNotify(ApproveBlog(c, id, feedback), id, mail)

RejectRoute(c, id, reason, mail) == ThenNotify(RejectBlog(c, id, reason), id, mail)

\* PUT /api/admin/blogs/:id/toggle-visibility
ToggleVisibilityBlog(c, id) ==
  IF AdminGate(c) # "ok" THEN Result(AdminGate(c), blogs)
  ELSE IF id \notin Existing THEN Result("NotFound", blogs)
  ELSE IF blogs[id].status # "published" THEN Result("InvalidState", blogs)
  ELSE LET d1 == [blogs[id] EXCEPT
                    !.status = IF @ = "published" THEN "hidden" ELSE "published"]
           d2 == IF d1.status = "published" THEN [d1 EXCEPT !.publishedAt = now] ELSE d1
       IN  Result("ok", Put(blogs, id, PreSave(d2, {"status"}, now)))

\* as AdminDeleteBlog, answering success without removing the post
AdminDeleteBlogKeepsPost(c, id) ==
  IF AdminGate(c) # "ok" THEN Result(AdminGate(c), blogs)
  ELSE IF id \notin Existing THEN Result("NotFound", blogs)
  ELSE Result("ok", blogs)

\* DELETE /api/admin/blogs/:id
AdminDeleteBlog(c, id) ==
  IF AdminGate(c) # "ok" THEN Result(AdminGate(c), blogs)
  ELSE IF id \notin Existing THEN Result("NotFound", blogs)
  ELSE Result("ok", Remove(blogs, id))

(***************************************************************************)
(* Actions: one request, handled to completion.                            *)
(***************************************************************************)
NoId == "none"

NoRequests == [s \in {} |-> [user |-> NoUser, id |-> NoId, doc |-> NewBlog(<<>>, NoUser),
                             stale |-> FALSE]]

NoListing ==
  [route |-> "none", category |-> {}, page |-> 0, limit |-> 0, total |-> 0,
   totalPages |-> 0, hasNext |-> FALSE, hasPrev |-> FALSE, data |-> <<>>]

Respond(op, id, r) ==
  /\ blogs' = r.blogs
  /\ resp' = [op |-> op, id |-> id, code |-> r.code, mail |-> "none"]

\* the response of a route that ends with a notification of the author
RespondMail(op, id, r) ==
  /\ blogs' = r.blogs
  /\ resp' = [op |-> op, id |-> id, code |-> r.code, mail |-> r.mail]

Create(c, title) ==
  /\ used # BlogIds
  /\ Respond("create", NewId, CreateBlog(c, title))
  /\ used' = IF CreateBlog(c, title).code = "ok" THEN used \cup {NewId} ELSE used
  /\ UNCHANGED <<users, now, inflight, listing>>

Update(c, id, body) ==
  /\ Respond("update", id, UpdateBlog(c, id, body))
  /\ UNCHANGED <<used, users, now, inflight, listing>>

Delete(c, id) ==
  /\ Respond("delete", id, DeleteBlog(c, id))
  /\ UNCHANGED <<used, users, now, inflight, listing>>

Approve(c, id, feedback) ==
  /\ \E mail \in MailOutcomes : RespondMail("approve", id, ApproveRoute(c, id, feedback, mail))
  /\ UNCHANGED <<used, users, now, inflight, listing>>

Reject(c, id, reason) ==
  /\ \E mail \in MailOutcomes : RespondMail("reject", id, RejectRoute(c, id, reason, mail))
  /\ UNCHANGED <<used, users, now, inflight, listing>>

ToggleVisibility(c, id) ==
  /\ Respond("toggle", id, ToggleVisibilityBlog(c, id))
  /\ UNCHANGED <<used, users, now, inflight, listing>>

AdminDelete(c, id) ==
  /\ Respond("adminDelete", id, AdminDeleteBlog(c, id))
  /\ UNCHANGED <<used, users, now, inflight, listing>>

Tick ==
  /\ now < MaxTime
  /\ now' = now + 1
  /\ UNCHANGED <<blogs, used, users, resp, inflight, listing>>

Init ==
  /\ blogs = [b \in {} |-> NewBlog(<<>>, NoUser)]
  /\ used = {}
  /\ users = [u \in Users |-> [role |-> IF u = "a1" THEN "admin" ELSE "user",
                               isActive |-> u # "u3"]]
  /\ now = 1
  /\ resp = [op |-> "none", id |-> NoId, code |-> "ok", mail |-> "none"]
  /\ inflight = NoRequests
  /\ listing = NoListing

Next ==
  \/ \E c \in Callers, t \in CreateTitles : Create(c, t)
  \/ \E c \in Callers, id \in BlogIds, fb \in Feedbacks : Approve(c, id, fb)
  \/ \E c \in Callers, id \in BlogIds, reason \in Reasons : Reject(c, id, reason)
  \/ \E c \in Callers, id \in BlogIds : ToggleVisibility(c, id)
  \/ \E c \in Callers, id \in BlogIds, body \in Bodies : Update(c, id, body)
  \/ \E c \in Callers, id \in BlogIds : Delete(c, id)
  \/ \E c \in Callers, id \in BlogIds : AdminDelete(c, id)
  \/ Tick

Spec == Init /\ [][Next]_vars

(***************************************************************************)
(* Engagement, one request at a time.  The store starts with one post that *)
(* u1 created and a1 approved.                                             *)
(***************************************************************************)
SeedUsers ==
  [u \in Users |-> [role |-> IF u = "a1" THEN "admin" ELSE "user", isActive |-> u # "u3"]]

PublishedPost ==
  [PreSave(NewBlog(TitleHelloBang, "u1"), {"title", "content", "author", "status"}, 1)
     EXCEPT !.status = "published", !.publishedAt = 1,
            !.approvedBy = "a1", !.approvedAt = 1]

\* the callers of the engagement routes, and what they send
Readers == {"u1", "u2", "u3", Anon}
ViewSlugs == {Slugify(TitleHelloBang), SlugOther}
LikesTwice == <<"u2", "u2">>
EngageBodies ==
  EngagementBodies
    \cup {EmptyBody, [EmptyBody EXCEPT !.status = {"draft"}],
          [EmptyBody EXCEPT !.likes = {LikesTwice}]}
    \cup {[EmptyBody EXCEPT !.content = {text}] : text \in {ContentLong, ContentTiny}}

Like(c, id) ==
  /\ Respond("like", id, LikeBlog(c, id))
  /\ UNCHANGED <<used, users, now, inflight, listing>>

Comment(c, id, content) ==
  /\ id \in Existing => Len(blogs[id].comments) < MaxComments
  /\ Respond("comment", id, CommentBlog(c, id, content))
  /\ UNCHANGED <<used, users, now, inflight, listing>>

View(c, slug) ==
  /\ \A b \in FindPublishedBySlug(slug) : blogs[b].views < MaxViews
  /\ Respond("view",
             IF FindPublishedBySlug(slug) = {} THEN NoId ELSE Elem(FindPublishedBySlug(slug)),
             ViewBlog(c, slug))
  /\ UNCHANGED <<used, users, now, inflight, listing>>

EngageInit ==
  /\ blogs = [b \in BlogIds |-> PublishedPost]
  /\ used = BlogIds
  /\ users = SeedUsers
  /\ now = 1
  /\ resp = [op |-> "none", id |-> NoId, code |-> "ok", mail |-> "none"]
  /\ inflight = NoRequests
  /\ listing = NoListing

EngageNext ==
  \/ \E c \in Readers, id \in BlogIds : Like(c, id)
  \/ \E c \in Readers, id \in BlogIds, content \in CommentTexts : Comment(c, id, content)
  \/ \E c \in Readers, slug \in ViewSlugs : View(c, slug)
  \/ \E c \in {"u1", "a1"}, id \in BlogIds, body \in EngageBodies : Update(c, id, body)
  \/ \E id \in BlogIds : Approve("a1", id, "absent")
  \/ \E id \in BlogIds : Reject("a1", id, Reason10)
  \/ \E id \in BlogIds : ToggleVisibility("a1", id)

EngageSpec == EngageInit /\ [][EngageNext]_vars

(***************************************************************************)
(* Like requests that overlap.  The route awaits Blog.findById, then, in   *)
(* one turn of the event loop, checks the status, changes the like list of *)
(* the document it read and issues the save; the store applies the save    *)
(* later.  Other requests run between the read and the save.               *)
(*                                                                         *)
(* blog.save() sends what Mongoose tracked on the document: likes.push(u)  *)
(* is sent as a $push of u, which the store appends to the list it holds;  *)
(* likes.splice(i, 1) is sent as a $set of the whole in-memory list, on    *)
(* condition that the document's version is still the one that was read,   *)
(* and fails with a VersionError otherwise.  Either save raises the        *)
(* version.  A request is marked stale when the version it read has been   *)
(* raised.                                                                 *)
(***************************************************************************)
Slots == 1..MaxInflight

FreeSlot == CHOOSE s \in Slots \ DOMAIN inflight :
              \A t \in Slots \ DOMAIN inflight : s <= t

\* protect, Blog.findById, the 404 and the published check
ReadForLike(c, id) ==
  IF ~Protect(c) THEN "Unauthenticated"
  ELSE IF id \notin Existing THEN "NotFound"
  ELSE IF blogs[id].status # "published" THEN "InvalidState"
  ELSE "ok"

\* blog.toggleLike(req.user._id) on the document that was read, and its save
SaveLike(req) ==
  LET mem == toggleLike(req.doc, req.user, now)
  IN  IF req.id \notin Existing THEN Result("Error", blogs)
      ELSE IF IndexOf(req.doc.likes, req.user) = 0
      THEN Result("ok", Put(blogs, req.id,
                    [blogs[req.id] EXCEPT !.likes = Append(@, req.user)]))
      ELSE IF req.stale THEN Result("Error", blogs)
      ELSE Result("ok", Put(blogs, req.id, [blogs[req.id] EXCEPT !.likes = mem.likes]))

LikeRead(c, id) ==
  /\ Slots \ DOMAIN inflight # {}
  /\ IF ReadForLike(c, id) = "ok"
     THEN /\ inflight' = [s \in DOMAIN inflight \cup {FreeSlot} |->
                            IF s = FreeSlot
                            THEN [user |-> c, id |-> id, doc |-> blogs[id], stale |-> FALSE]
                            ELSE inflight[s]]
          /\ UNCHANGED <<blogs, resp>>
     ELSE /\ Respond("like", id, Result(ReadForLike(c, id), blogs))
          /\ UNCHANGED inflight
  /\ UNCHANGED <<used, users, now, listing>>

LikeSave(s) ==
  /\ s \in DOMAIN inflight
  /\ Respond("like", inflight[s].id, SaveLike(inflight[s]))
  /\ inflight' = [t \in DOMAIN inflight \ {s} |->
                    IF SaveLike(inflight[s]).code = "ok" /\ inflight[t].id = inflight[s].id
                    THEN [inflight[t] EXCEPT !.stale = TRUE] ELSE inflight[t]]
  /\ UNCHANGED <<used, users, now, listing>>

RaceInit == EngageInit

RaceNext ==
  \/ \E c \in Readers, id \in BlogIds : LikeRead(c, id)
  \/ \E s \in Slots : LikeSave(s)
  \/ \E id \in BlogIds : ToggleVisibility("a1", id)

RaceSpec == RaceInit /\ [][RaceNext]_vars

(***************************************************************************)
(* Overlapping moderation requests.  The approve and reject routes load    *)
(* the post, check that it is pending, change the loaded document and save *)
(* it; requests of several admins interleave between the load and the      *)
(* save.  A request in flight holds the document it loaded.                *)
(***************************************************************************)
\* u2 has been made an admin as well
TwoAdmins == [SeedUsers EXCEPT !["u2"].role = "admin"]

Moderators == {"a1", "u2", "u1"}

\* router.use(protect, admin), validation, Blog.findById, the 404 and the
\* pending check of the approve route
ReadForApprove(c, id, feedback) ==
  IF AdminGate(c) # "ok" THEN AdminGate(c)
  ELSE IF feedback = "number" THEN "ValidationFailed"
  ELSE IF id \notin Existing THEN "NotFound"
  ELSE IF blogs[id].status # "pending" THEN "InvalidState"
  ELSE "ok"

\* the same steps of the reject route
ReadForReject(c, id, reason) ==
  IF AdminGate(c) # "ok" THEN AdminGate(c)
  ELSE IF Len(reason) < ReasonMin \/ Len(reason) > ReasonMax THEN "ValidationFailed"
  ELSE IF id \notin Existing THEN "NotFound"
  ELSE IF blogs[id].status # "pending" THEN "InvalidState"
  ELSE "ok"

\* blog.save() of the approve route: the four assigned paths are written to
\* the stored document, selected by _id alone (publishedAt is assigned, so
\* the save hook adds nothing)
SaveApprove(req) ==
  IF req.id \notin Existing THEN Result("Error", blogs)
  ELSE Result("ok", Put(blogs, req.id,
                [blogs[req.id] EXCEPT !.status = "published", !.publishedAt = now,
                                      !.approvedBy = req.user, !.approvedAt = now]))

\* blog.save() of the reject route: status and rejectionReason are written
SaveReject(req) ==
  IF req.id \notin Existing THEN Result("Error", blogs)
  ELSE Result("ok", Put(blogs, req.id,
                [blogs[req.id] EXCEPT !.status = "rejected", !.rejectionReason = req.reason]))

Hold(c, id, op, reason) ==
  inflight' = [s \in DOMAIN inflight \cup {FreeSlot} |->
                 IF s = FreeSlot
                 THEN [user |-> c, id |-> id, doc |-> blogs[id], stale |-> FALSE,
                       op |-> op, reason |-> reason]
                 ELSE inflight[s]]

ApproveRead(c, id, feedback) ==
  /\ Slots \ DOMAIN inflight # {}
  /\ IF ReadForApprove(c, id, feedback) = "ok"
     THEN /\ Hold(c, id, "approve", "")
          /\ UNCHANGED <<blogs, resp>>
     ELSE /\ Respond("approve", id, Result(ReadForApprove(c, id, feedback), blogs))
          /\ UNCHANGED inflight
  /\ UNCHANGED <<used, users, now, listing>>

RejectRead(c, id, reason) ==
  /\ Slots \ DOMAIN inflight # {}
  /\ IF ReadForReject(c, id, reason) = "ok"
     THEN /\ Hold(c, id, "reject", reason)
          /\ UNCHANGED <<blogs, resp>>
     ELSE /\ Respond("reject", id, Result(ReadForReject(c, id, reason), blogs))
          /\ UNCHANGED inflight
  /\ UNCHANGED <<used, users, now, listing>>

ApproveSave(s) ==
  /\ s \in DOMAIN inflight
  /\ inflight[s].op = "approve"
  /\ \E mail \in MailOutcomes :
       RespondMail("approve", inflight[s].id,
                   ThenNotify(SaveApprove(inflight[s]), inflight[s].id, mail))
  /\ inflight' = [t \in DOMAIN inflight \ {s} |-> inflight[t]]
  /\ UNCHANGED <<used, users, now, listing>>

RejectSave(s) ==
  /\ s \in DOMAIN inflight
  /\ inflight[s].op = "reject"
  /\ \E mail \in MailOutcomes :
       RespondMail("reject", inflight[s].id,
                   ThenNotify(SaveReject(inflight[s]), inflight[s].id, mail))
  /\ inflight' = [t \in DOMAIN inflight \ {s} |-> inflight[t]]
  /\ UNCHANGED <<used, users, now, listing>>

\* one pending post of u1, two admins
ModerationInit ==
  /\ blogs = [b \in BlogIds |-> PreSave(NewBlog(TitleHelloBang, "u1"),
                                         {"title", "content", "author", "status"}, 1)]
  /\ used = BlogIds
  /\ users = TwoAdmins
  /\ now = 1
  /\ resp = [op |-> "none", id |-> NoId, code |-> "ok", mail |-> "none"]
  /\ inflight = NoRequests
  /\ listing = NoListing

ModerationNext ==
  \/ \E c \in Moderators, id \in BlogIds, fb \in Feedbacks : ApproveRead(c, id, fb)
  \/ \E c \in Moderators, id \in BlogIds, reason \in Reasons : RejectRead(c, id, reason)
  \/ \E s \in Slots : ApproveSave(s)
  \/ \E s \in Slots : RejectSave(s)
  \/ Tick

ModerationSpec == ModerationInit /\ [][ModerationNext]_vars

(***************************************************************************)
(* User administration.  A request passes router.use(protect, admin),      *)
(* which reads the caller's record, and its handler then loads the target  *)
(* record, refuses a change of the caller's own record and saves.  Other   *)
(* requests run between the two steps.  Each caller has at most one        *)
(* request in flight, held under the caller's name.                        *)
(***************************************************************************)
Targets == {"a1", "u2", GhostUser}

Roles == {"user", "admin"}
BodyRoles == Roles \cup {"owner"}

AdminCallers == {"a1", "u2", "u1"}

UserResult(code, store) == [code |-> code, users |-> store]

\* PUT /api/admin/users/:id/toggle-status, after the gate
ToggleStatusUser(c, id) ==
  IF id \notin DOMAIN users THEN UserResult("NotFound", users)
  ELSE IF id = c THEN UserResult("Refused", users)
  ELSE UserResult("ok", [users EXCEPT ![id].isActive = ~@])

\* PUT /api/admin/users/:id/role, after the gate
ChangeRoleUser(c, id, role) ==
  IF role \notin Roles THEN UserResult("ValidationFailed", users)
  ELSE IF id \notin DOMAIN users THEN UserResult("NotFound", users)
  ELSE IF id = c THEN UserResult("Refused", users)
  ELSE UserResult("ok", [users EXCEPT ![id].role = role])

HandleUserRequest(req) ==
  IF req.op = "toggleStatus" THEN ToggleStatusUser(req.user, req.id)
  ELSE ChangeRoleUser(req.user, req.id, req.role)

\* protect and admin: a refused request is answered, an admitted one goes on
\* to its handler
AdminBegin(c, id, op, role) ==
  /\ c \notin DOMAIN inflight
  /\ IF AdminGate(c) = "ok"
     THEN /\ inflight' = [u \in DOMAIN inflight \cup {c} |->
                            IF u = c THEN [user |-> c, id |-> id, op |-> op, role |-> role]
                            ELSE inflight[u]]
          /\ UNCHANGED resp
     ELSE /\ resp' = [op |-> op, id |-> id, code |-> AdminGate(c), mail |-> "none"]
          /\ UNCHANGED inflight
  /\ UNCHANGED <<blogs, used, users, now, listing>>

\* the handler of an admitted request
AdminFinish(c) ==
  /\ c \in DOMAIN inflight
  /\ users' = HandleUserRequest(inflight[c]).users
  /\ resp' = [op |-> inflight[c].op, id |-> inflight[c].id,
              code |-> HandleUserRequest(inflight[c]).code, mail |-> "none"]
  /\ inflight' = [u \in DOMAIN inflight \ {c} |-> inflight[u]]
  /\ UNCHANGED <<blogs, used, now, listing>>

UserInit ==
  /\ blogs = [b \in {} |-> NewBlog(<<>>, NoUser)]
  /\ used = {}
  /\ users = SeedUsers
  /\ now = 1
  /\ resp = [op |-> "none", id |-> NoId, code |-> "ok", mail |-> "none"]
  /\ inflight = NoRequests
  /\ listing = NoListing

UserNext ==
  \/ \E c \in AdminCallers, id \in Targets : AdminBegin(c, id, "toggleStatus", "user")
  \/ \E c \in AdminCallers, id \in Targets, role \in BodyRoles : AdminBegin(c, id, "role", role)
  \/ \E c \in AdminCallers : AdminFinish(c)

UserSpec == UserInit /\ [][UserNext]_vars

(***************************************************************************)
(* Deletion.  The store holds the post b1 of u1, which the requests        *)
(* address, and a published post b2 of u1 with a comment, which none       *)
(* addresses.                                                              *)
(***************************************************************************)
Bystander ==
  addComment([PublishedPost EXCEPT !.title = TitleSecond, !.slug = Slugify(TitleSecond)],
             "u2", "nice", 1)

DeleteBodies ==
  {[EmptyBody EXCEPT !.status = {"draft"}], [EmptyBody EXCEPT !.content = {ContentTiny}]}

DeleteInit ==
  /\ \E st \in {"pending", "published"} :
       blogs = [b \in {"b1", "b2"} |->
                  IF b = "b2" THEN Bystander
                  ELSE IF st = "published" THEN PublishedPost
                  ELSE PreSave(NewBlog(TitleHelloBang, "u1"),
                               {"title", "content", "author", "status"}, 1)]
  /\ used = {"b1", "b2"}
  /\ users = SeedUsers
  /\ now = 1
  /\ resp = [op |-> "none", id |-> NoId, code |-> "ok", mail |-> "none"]
  /\ inflight = NoRequests
  /\ listing = NoListing

DeleteNext ==
  \/ \E c \in {"u1", "u2", "a1"}, id \in BlogIds : Delete(c, id)
  \/ \E c \in {"u1", "a1"}, id \in BlogIds : AdminDelete(c, id)
  \/ \E id \in BlogIds, body \in DeleteBodies : Update("u1", id, body)
  \/ \E id \in BlogIds : Like("u2", id)
  \/ \E id \in BlogIds, content \in CommentTexts : Comment("u2", id, content)
  \/ \E id \in BlogIds : Approve("a1", id, "absent")
  \/ \E id \in BlogIds, reason \in {Reason5, Reason10} : Reject("a1", id, reason)
  \/ \E id \in BlogIds : ToggleVisibility("a1", id)

DeleteSpec == DeleteInit /\ [][DeleteNext]_vars

(***************************************************************************)
(* Listings.  A query parameter is the empty set (absent) or a singleton.  *)
(* The store holds three posts of u1, each pending or approved, in either  *)
(* category.                                                               *)
(***************************************************************************)
ListIds == {"b1", "b2", "b3"}
PostNo == [b \in ListIds |-> CASE b = "b1" -> "1" [] b = "b2" -> "2" [] OTHER -> "3"]

SeedPost(b, st, k) ==
  LET created == PreSave(NewBlog(Append(TitleHelloBang, PostNo[b]), "u1"),
                         {"title", "content", "author", "status"}, 1)
  IN  IF st = "published"
      THEN [created EXCEPT !.category = k, !.status = "published", !.publishedAt = 1,
                           !.approvedBy = "a1", !.approvedAt = 1]
      ELSE [created EXCEPT !.category = k]

DefaultPage == 1
DefaultLimit == 10
LimitMax == 50

QueryPages == {{}} \cup {{n} : n \in 0..MaxPage}
QueryLimits == {{}} \cup {{n} : n \in {1, 2, LimitMax, LimitMax + 1}}
QueryCategories == {{}} \cup {{k} : k \in Categories}

\* parseInt(req.query.x) || d
ParseOr(param, d) == IF param = {} \/ Elem(param) = 0 THEN d ELSE Elem(param)

\* query('page').optional().isInt({ min: 1 }),
\* query('limit').optional().isInt({ min: 1, max: 50 })
QueryValid(page, limit) ==
  /\ page = {} \/ Elem(page) >= 1
  /\ limit = {} \/ (Elem(limit) >= 1 /\ Elem(limit) <= LimitMax)

\* Blog.countDocuments({ status: 'published' [, category] })
CountPublished(category) ==
  Cardinality({b \in Existing : /\ blogs[b].status = "published"
                                /\ category = {} \/ blogs[b].category = Elem(category)})

\* Blog.find({ status: 'published' [, category] })
FindPublished(category) ==
  {b \in Existing : /\ blogs[b].status = "published"
                    /\ category = {} \/ blogs[b].category = Elem(category)}

\* .sort(): the orders in which the store may return the documents, by
\* one key descending; documents with equal keys come in any order
Perms(ids) ==
  {s \in [1..Cardinality(ids) -> ids] : \A i, j \in 1..Cardinality(ids) : i # j => s[i] # s[j]}

Orders(ids, key) ==
  {s \in Perms(ids) : \A i \in 1..(Len(s) - 1) : key[s[i]] >= key[s[i + 1]]}

PublishedAtOf == [b \in Existing |-> blogs[b].publishedAt]
ViewsOf == [b \in Existing |-> blogs[b].views]
\* 'likes.length', 'comments.length' and 'analytics.uniqueVisitors': likes
\* holds ids, which have no length field, and the visitor count is never
\* written, so the key is the same for every document
SameForAll == [b \in Existing |-> 0]

\* the sort object of GET /api/blogs
QuerySorts == {{}, {"popular"}, {"oldest"}}
SortNames == {"latest", "popular", "trending"}

SortOrders(ids, sort) ==
  IF sort = {"popular"} THEN Orders(ids, ViewsOf)
  ELSE IF sort = {"trending"} THEN Orders(ids, SameForAll)
  ELSE Orders(ids, PublishedAtOf)

\* .skip(skip).limit(limit)
Min(a, b) == IF a < b THEN a ELSE b
SkipLimit(order, skip, limit) == SubSeq(order, skip + 1, Min(Len(order), skip + limit))

\* the pagination block the blog listings build, with the page of documents
Pagination(route, category, page, limit, total, order) ==
  LET totalPages == Ceil(total, limit)
  IN  [route |-> route, category |-> category, page |-> page, limit |-> limit,
       total |-> total, totalPages |-> totalPages,
       hasNext |-> page < totalPages, hasPrev |-> page > 1,
       data |-> SkipLimit(order, (page - 1) * limit, limit)]

\* GET /api/blogs: order is the sequence in which the store returns the
\* documents that match
ListBlogs(page, limit, category, sort, order) ==
  IF ~QueryValid(page, limit) \/ ~(sort \subseteq SortNames)
  THEN [code |-> "ValidationFailed", listing |-> NoListing]
  ELSE [code |-> "ok",
        listing |-> Pagination("blogs", category, ParseOr(page, DefaultPage),
                               ParseOr(limit, DefaultLimit), CountPublished(category),
                               order)]

\* GET /api/blogs/category/:category: no validation of the query
ListCategory(category, page, limit, order) ==
  [code |-> "ok",
   listing |-> Pagination("category", {category}, ParseOr(page, DefaultPage),
                          ParseOr(limit, DefaultLimit), CountPublished({category}), order)]

\* GET /api/blogs/trending: no validation, no page and no pagination block
ListTrending(limit, order) ==
  [code |-> "ok",
   listing |-> [NoListing EXCEPT !.route = "trending",
                                 !.limit = ParseOr(limit, DefaultLimit),
                                 !.data = SkipLimit(order, 0, ParseOr(limit, DefaultLimit))]]

\* GET /api/users/reading-history, behind router.use(protect): the block is
\* written out in the handler
ListReadingHistory(c, page, limit) ==
  IF ~Protect(c) THEN [code |-> "Unauthenticated", listing |-> NoListing]
  ELSE IF ~QueryValid(page, limit) THEN [code |-> "ValidationFailed", listing |-> NoListing]
  ELSE [code |-> "ok",
        listing |-> [route |-> "reading-history", category |-> {},
                     page |-> ParseOr(page, DefaultPage),
                     limit |-> ParseOr(limit, DefaultLimit),
                     total |-> 0, totalPages |-> 0, hasNext |-> FALSE, hasPrev |-> FALSE,
                     data |-> <<>>]]

RespondListing(r) ==
  /\ listing' = r.listing
  /\ resp' = [op |-> "list", id |-> NoId, code |-> r.code, mail |-> "none"]

GetBlogs(page, limit, category, sort) ==
  /\ \E order \in SortOrders(FindPublished(category), sort) :
       RespondListing(ListBlogs(page, limit, category, sort, order))
  /\ UNCHANGED <<blogs, used, users, now, inflight>>

GetCategory(category, page, limit) ==
  /\ \E order \in SortOrders(FindPublished({category}), {}) :
       RespondListing(ListCategory(category, page, limit, order))
  /\ UNCHANGED <<blogs, used, users, now, inflight>>

GetTrending(limit) ==
  /\ \E order \in SortOrders(FindPublished({}), {"trending"}) :
       RespondListing(ListTrending(limit, order))
  /\ UNCHANGED <<blogs, used, users, now, inflight>>

GetReadingHistory(c, page, limit) ==
  /\ RespondListing(ListReadingHistory(c, page, limit))
  /\ UNCHANGED <<blogs, used, users, now, inflight>>

PageInit ==
  /\ \E st \in [ListIds -> {"pending", "published"}], k \in [ListIds -> Categories] :
       blogs = [b \in ListIds |-> SeedPost(b, st[b], k[b])]
  /\ used = ListIds
  /\ users = SeedUsers
  /\ now = 1
  /\ resp = [op |-> "none", id |-> NoId, code |-> "ok", mail |-> "none"]
  /\ inflight = NoRequests
  /\ listing = NoListing

PageNext ==
  \/ \E page \in QueryPages, limit \in QueryLimits, k \in QueryCategories :
       GetBlogs(page, limit, k, {})
  \/ \E k \in Categories, page \in QueryPages, limit \in QueryLimits :
       GetCategory(k, page, limit)
  \/ \E c \in {"u1", Anon}, page \in QueryPages, limit \in QueryLimits :
       GetReadingHistory(c, page, limit)
  \/ \E limit \in QueryLimits : GetTrending(limit)

PageSpec == PageInit /\ [][PageNext]_vars

(***************************************************************************)
(* Public reads.  The store holds two posts of u1, each in any of the five *)
(* statuses, the second with or without likes; readers list the posts and  *)
(* fetch them by slug, which counts views.                                 *)
(***************************************************************************)
ReadIds == {"b1", "b2"}

ReadPost(b, st, likes) ==
  LET created == PreSave(NewBlog(Append(TitleHelloBang, PostNo[b]), "u1"),
                         {"title", "content", "author", "status"}, 1)
      approved == [created EXCEPT !.publishedAt = 1, !.approvedBy = "a1", !.approvedAt = 1]
  IN  CASE st \in {"published", "hidden"} -> [approved EXCEPT !.status = st, !.likes = likes]
        [] st = "rejected" -> [created EXCEPT !.status = st, !.rejectionReason = Reason10]
        [] OTHER -> [created EXCEPT !.status = st]

LikesOfTwo == <<"u2", "u3">>

ReadSlugs == {Slugify(Append(TitleHelloBang, PostNo[b])) : b \in ReadIds} \cup {SlugOther}

ReadInit ==
  /\ \E st \in [ReadIds -> Statuses], likes \in {<<>>, LikesOfTwo} :
       blogs = [b \in ReadIds |-> ReadPost(b, st[b], IF b = "b2" THEN likes ELSE <<>>)]
  /\ used = ReadIds
  /\ users = SeedUsers
  /\ now = 1
  /\ resp = [op |-> "none", id |-> NoId, code |-> "ok", mail |-> "none"]
  /\ inflight = NoRequests
  /\ listing = NoListing

ReadNext ==
  \/ \E limit \in {{}, {1}}, sort \in QuerySorts : GetBlogs({}, limit, {}, sort)
  \/ \E limit \in {{}, {1}} : GetCategory(DefaultCategory, {}, limit)
  \/ \E limit \in {{}, {1}} : GetTrending(limit)
  \/ \E c \in {"u1", Anon}, slug \in ReadSlugs : View(c, slug)

ReadSpec == ReadInit /\ [][ReadNext]_vars

(***************************************************************************)
(* Properties of the moderation workflow.                                  *)
(***************************************************************************)
ActiveAdmin(c) == Protect(c) /\ users[c].role = "admin"
ActiveUser(c) == Protect(c) /\ users[c].role # "admin"
Kept == Existing \cap DOMAIN blogs'
TitleAccepted(body) ==
  body.title = {} \/ (Len(Elem(body.title)) >= 10 /\ Len(Elem(body.title)) <= 200)
ReasonAccepted(reason) == Len(reason) >= 10 /\ Len(reason) <= 500

\* the lifecycle table: from, to, and the request that may cause the change
LifecycleTable ==
  { <<"draft", "pending", "update">>,
    <<"pending", "published", "approve">>,
    <<"pending", "rejected", "reject">>,
    <<"published", "pending", "update">>,
    <<"published", "hidden", "toggle">>,
    <<"hidden", "published", "toggle">> }

\* C1: every change of a post's status is a transition of the lifecycle
\* table, made by the request the table names; in particular no update
\* request moves a post to published.
C1_StatusChangesFollowTable ==
  [][\A b \in Kept :
       blogs'[b].status # blogs[b].status
         => <<blogs[b].status, blogs'[b].status, resp'.op>> \in LifecycleTable]_vars

\* C2 as stated: the status is one of the five values, and every approve or
\* reject request of an admin on a post that is not pending is answered
\* InvalidState and changes nothing.
C2_NotPendingAlwaysInvalidState ==
  [][/\ \A b \in DOMAIN blogs' : blogs'[b].status \in Statuses
     /\ \A c \in Users, id \in Existing :
          (ActiveAdmin(c) /\ blogs[id].status # "pending")
            => /\ \A fb \in {"absent", "string"} :
                    Approve(c, id, fb) => (resp'.code = "InvalidState" /\ blogs' = blogs)
               /\ \A reason \in Reasons :
                    Reject(c, id, reason) => (resp'.code = "InvalidState" /\ blogs' = blogs)]_vars

\* C2 amended: the status is one of the five values; on a post that is not
\* pending an approve request, and a reject request whose reason has 10 to
\* 500 characters, is answered InvalidState, and a reject request with any
\* other reason is answered ValidationFailed; in each case the store is
\* left as it was.
C2_NotPendingInvalidStateAfterValidation ==
  /\ \A b \in Existing : blogs[b].status \in Statuses
  /\ \A c \in Users, id \in Existing :
       (ActiveAdmin(c) /\ blogs[id].status # "pending")
         => /\ \A fb \in {"absent", "string"} :
                 ApproveBlog(c, id, fb) = Result("InvalidState", blogs)
            /\ \A reason \in Reasons :
                 RejectBlog(c, id, reason) =
                   Result(IF ReasonAccepted(reason) THEN "InvalidState"
                          ELSE "ValidationFailed", blogs)

\* an approve request has just been refused on a post that is not pending
C2_Witness ==
  /\ resp.op = "approve" /\ resp.code = "InvalidState"
  /\ resp.id \in Existing /\ blogs[resp.id].status = "rejected"

\* C3: an update of a published post by its owner or an admin succeeds and
\* leaves the post pending, whatever the body carries; no successful update
\* of a published post leaves it in another status.
C3_EditOfPublishedGivesPending ==
  \A c \in Users, id \in Existing, body \in Bodies :
    blogs[id].status = "published"
      => LET r == UpdateBlog(c, id, body)
         IN  /\ r.code = "ok" => r.blogs[id].status = "pending"
             /\ ( /\ Protect(c)
                  /\ (users[c].role = "admin" \/ blogs[id].author = c)
                  /\ TitleAccepted(body)
                  /\ (body.slug # {} => ~SlugTaken(blogs, Elem(body.slug), id)) )
                  => r.code = "ok"

\* a post that was published is pending again after a successful update
C3_Witness ==
  /\ resp.op = "update" /\ resp.code = "ok"
  /\ resp.id \in Existing
  /\ blogs[resp.id].status = "pending"
  /\ blogs[resp.id].approvedBy # NoUser

\* C4: the approval of a pending post without a publish timestamp publishes
\* it, with publishedAt and approvedAt the time of the request and
\* approvedBy the admin; right after a successful approval every further
\* approve request for the post is answered InvalidState and changes nothing.
C4_ApproveThenApproveAgain ==
  /\ \A c \in Users, id \in Existing, fb \in {"absent", "string"} :
       (ActiveAdmin(c) /\ blogs[id].status = "pending" /\ blogs[id].publishedAt = NoDate)
         => ApproveBlog(c, id, fb) =
              Result("ok", Put(blogs, id,
                [blogs[id] EXCEPT !.status = "published", !.publishedAt = now,
                                  !.approvedBy = c, !.approvedAt = now]))
  /\ (resp.op = "approve" /\ resp.code = "ok")
       => /\ resp.id \in Existing
          /\ blogs[resp.id].status = "published"
          /\ blogs[resp.id].approvedBy # NoUser
          /\ \A c \in Users, fb \in {"absent", "string"} :
               ActiveAdmin(c) => ApproveBlog(c, resp.id, fb) = Result("InvalidState", blogs)

\* a post approved at the present time, with both timestamps set to it, has
\* just had a second approve request refused
C4_Witness ==
  /\ resp.op = "approve" /\ resp.code = "InvalidState"
  /\ resp.id \in Existing
  /\ blogs[resp.id].status = "published"
  /\ blogs[resp.id].publishedAt = now /\ blogs[resp.id].approvedAt = now
  /\ blogs[resp.id].approvedBy = "a1"

\* C5: an approval of a post that already has a publish timestamp keeps it.
C5_ApprovalKeepsPublishedAt ==
  [][\A b \in Kept :
       (resp'.op = "approve" /\ resp'.code = "ok" /\ resp'.id = b
          /\ blogs[b].publishedAt # NoDate)
         => blogs'[b].publishedAt = blogs[b].publishedAt]_vars

\* C6: a toggle-visibility request of an admin hides a published post,
\* publishes a hidden post again with publishedAt the time of the request,
\* and on any other status is answered InvalidState and changes nothing.
C6_ToggleBothWays ==
  [][\A c \in Users, id \in Existing :
       (ActiveAdmin(c) /\ ToggleVisibility(c, id))
         => CASE blogs[id].status = "published" ->
                   resp'.code = "ok" /\ blogs'[id].status = "hidden"
              [] blogs[id].status = "hidden" ->
                   /\ resp'.code = "ok"
                   /\ blogs'[id].status = "published"
                   /\ blogs'[id].publishedAt = now
              [] OTHER -> resp'.code = "InvalidState" /\ blogs' = blogs]_vars

\* C7: a reject request of an admin with a reason of 10 to 500 characters on
\* a pending post makes it rejected and stores the reason as given, nothing
\* else changing; with a shorter or longer reason the request is answered
\* ValidationFailed and changes nothing, whatever the post and its status.
C7_RejectReasonLength ==
  \A c \in Users, id \in BlogIds, reason \in Reasons :
    ActiveAdmin(c)
      => /\ ~ReasonAccepted(reason)
              => RejectBlog(c, id, reason) = Result("ValidationFailed", blogs)
         /\ (ReasonAccepted(reason) /\ id \in Existing /\ blogs[id].status = "pending")
              => RejectBlog(c, id, reason) =
                   Result("ok", Put(blogs, id,
                     [blogs[id] EXCEPT !.status = "rejected",
                                       !.rejectionReason = reason]))

\* a post was rejected with a reason of exactly 500 characters, and a later
\* reject request failed validation
C7_Witness ==
  /\ resp.op = "reject" /\ resp.code = "ValidationFailed"
  /\ resp.id \in Existing
  /\ blogs[resp.id].status = "rejected"
  /\ blogs[resp.id].rejectionReason = Reason500

\* C8: an update or delete request of an authenticated caller who is neither
\* the author nor an admin changes nothing and is answered Unauthorized (an
\* update whose title fails validation is refused before that); approve,
\* reject and toggle-visibility change nothing for a caller who is not an
\* admin, and answer Unauthorized to an authenticated one.
C8_OnlyOwnerOrAdmin ==
  /\ \A c \in Users, id \in Existing :
       (ActiveUser(c) /\ blogs[id].author # c)
         => /\ DeleteBlog(c, id) = Result("Unauthorized", blogs)
            /\ \A body \in Bodies :
                 LET r == UpdateBlog(c, id, body)
                 IN  /\ r.blogs = blogs
                     /\ r.code # "ok"
                     /\ TitleAccepted(body) => r.code = "Unauthorized"
  /\ \A c \in Callers, id \in BlogIds :
       ~ActiveAdmin(c)
         => LET refused == IF ActiveUser(c) THEN {"Unauthorized"} ELSE {"Unauthenticated"}
            IN  /\ \A fb \in Feedbacks :
                     /\ ApproveBlog(c, id, fb).blogs = blogs
                     /\ ApproveBlog(c, id, fb).code \in refused
                /\ \A reason \in Reasons :
                     /\ RejectBlog(c, id, reason).blogs = blogs
                     /\ RejectBlog(c, id, reason).code \in refused
                /\ ToggleVisibilityBlog(c, id).blogs = blogs
                /\ ToggleVisibilityBlog(c, id).code \in refused

\* a delete request on an existing post has just been refused
C8_Witness ==
  /\ resp.op = "delete" /\ resp.code = "Unauthorized"
  /\ resp.id \in Existing

\* C9: no request changes the slug of a post.
C9_SlugNeverChanges ==
  [][\A b \in Kept : blogs'[b].slug = blogs[b].slug]_vars

\* C10: no request changes the author of a post.
C10_AuthorNeverChanges ==
  [][\A b \in Kept : blogs'[b].author = blogs[b].author]_vars

\* C19: whatever the notification does (the mail is delivered, the send
\* throws, or the author's record is missing), the approval of a pending post
\* by an admin is answered with success and stores exactly what it stores
\* before the notification is attempted, the post being published; likewise a
\* rejection with an accepted reason, the post being rejected; and after a
\* successful approve or reject response the post has that status.
C19_NotificationNeverBlocks ==
  /\ \A c \in Users, id \in Existing, mail \in MailOutcomes :
       (ActiveAdmin(c) /\ blogs[id].status = "pending")
         => /\ \A fb \in {"absent", "string"} :
                 LET r == ApproveRoute(c, id, fb, mail)
                 IN  /\ r.code = "ok"
                     /\ r.blogs = ApproveBlog(c, id, fb).blogs
                     /\ r.blogs[id].status = "published"
            /\ \A reason \in Reasons :
                 ReasonAccepted(reason)
                   => LET r == RejectRoute(c, id, reason, mail)
                      IN  /\ r.code = "ok"
                          /\ r.blogs = RejectBlog(c, id, reason).blogs
                          /\ r.blogs[id].status = "rejected"
  /\ (resp.op \in {"approve", "reject"} /\ resp.mail # "none")
       => /\ resp.code = "ok"
          /\ resp.id \in Existing
          /\ blogs[resp.id].status = IF resp.op = "approve" THEN "published" ELSE "rejected"

\* a post whose author has no user record has just been approved: the
\* notification failed and was logged, the response is a success
C19_Witness ==
  /\ resp.op = "approve" /\ resp.code = "ok" /\ resp.mail = "logged"
  /\ resp.id \in Existing
  /\ blogs[resp.id].status = "published"
  /\ blogs[resp.id].author \notin DOMAIN users

(***************************************************************************)
(* Properties of the engagement bookkeeping.                               *)
(***************************************************************************)
ToSet(seq) == {seq[i] : i \in 1..Len(seq)}
ContentAccepted(content) == Len(content) >= 1 /\ Len(content) <= 1000

\* C11: on a published post the like request of an active user u applies
\* toggleLike; u is in the like list afterwards exactly if it was not before,
\* and a second toggleLike right after the first gives the like list the
\* members and the length it had at the start.
C11_ToggleLikeTwiceRestores ==
  \A c \in Users, id \in Existing :
    (Protect(c) /\ blogs[id].status = "published")
      => LET d0 == blogs[id]
             d1 == toggleLike(d0, c, now)
             d2 == toggleLike(d1, c, now)
         IN  /\ LikeBlog(c, id) = Result("ok", Put(blogs, id, d1))
             /\ (c \in ToSet(d1.likes)) <=> (c \notin ToSet(d0.likes))
             /\ ToSet(d2.likes) = ToSet(d0.likes)
             /\ Len(d2.likes) = Len(d0.likes)

\* C12: on a post that is not published, a like request and a comment
\* request with a text of 1 to 1000 characters, made by an active user, are
\* answered InvalidState; whoever the caller and whatever the text, no like
\* or comment request on such a post succeeds or changes the store.
C12_EngagementNeedsPublished ==
  \A id \in Existing :
    blogs[id].status # "published"
      => \A c \in Callers :
           /\ LikeBlog(c, id).code # "ok" /\ LikeBlog(c, id).blogs = blogs
           /\ Protect(c) => LikeBlog(c, id).code = "InvalidState"
           /\ \A content \in CommentTexts :
                LET r == CommentBlog(c, id, content)
                IN  /\ r.code # "ok" /\ r.blogs = blogs
                    /\ (Protect(c) /\ ContentAccepted(content)) => r.code = "InvalidState"

\* a comment request has just been refused on a hidden post that has likes
\* and comments
C12_Witness ==
  /\ resp.op = "comment" /\ resp.code = "InvalidState"
  /\ resp.id \in Existing
  /\ blogs[resp.id].status = "hidden"
  /\ Len(blogs[resp.id].likes) > 0 /\ Len(blogs[resp.id].comments) > 0

\* C15: every get-by-slug request that finds a published post adds exactly 1
\* to its view counter, whoever the caller is.
C15_EveryViewCounts ==
  [][\A c \in Callers, slug \in ViewSlugs :
       (View(c, slug) /\ FindPublishedBySlug(slug) # {})
         => \A b \in FindPublishedBySlug(slug) : blogs'[b].views = blogs[b].views + 1]_vars

\* C16: update, approve, reject and toggle-visibility requests leave the
\* views, likes and comments of every post as they were.
C16_OnlyEngagementMutatesCounters ==
  [][\A b \in Kept :
       resp'.op \in {"update", "approve", "reject", "toggle"}
         => /\ blogs'[b].views = blogs[b].views
            /\ blogs'[b].likes = blogs[b].likes
            /\ blogs'[b].comments = blogs[b].comments]_vars

\* C17: in every step the view counter of a post that stays does not decrease
\* and its comment list before the step is a prefix of the list after it; a
\* successful comment request appends one comment.
C17_ViewsAndCommentsOnlyGrow ==
  [][\A b \in Kept :
       /\ blogs'[b].views >= blogs[b].views
       /\ Len(blogs'[b].comments) >= Len(blogs[b].comments)
       /\ SubSeq(blogs'[b].comments, 1, Len(blogs[b].comments)) = blogs[b].comments
       /\ (resp'.op = "comment" /\ resp'.code = "ok" /\ resp'.id = b)
            => Len(blogs'[b].comments) = Len(blogs[b].comments) + 1]_vars

\* C18: no request that a user whose active flag is false can make changes
\* the store: the result of every like, comment, view, update and delete
\* request with that user's identity leaves every post as it is.
C18_InactiveUserChangesNothing ==
  \A c \in Users :
    ~users[c].isActive
      => /\ \A id \in BlogIds :
              /\ LikeBlog(c, id).blogs = blogs
              /\ DeleteBlog(c, id).blogs = blogs
              /\ \A content \in CommentTexts : CommentBlog(c, id, content).blogs = blogs
              /\ \A body \in EngageBodies : UpdateBlog(c, id, body).blogs = blogs
         /\ \A slug \in ViewSlugs : ViewBlog(c, slug).blogs = blogs

NoRepeat(seq) == \A i, j \in 1..Len(seq) : i # j => seq[i] # seq[j]

\* C13: in every reachable state, like requests overlapping or not, the like
\* list of every post holds each user id at most once.
C13_LikesHoldEachUserOnce ==
  \A b \in Existing : NoRepeat(blogs[b].likes)

\* C14: the like request of a user u takes effect whenever its save is
\* applied, whatever other users' requests ran since it read the post: when
\* the stored list has no repeated id, no other request of u is in progress
\* and u is in the stored list exactly if it is in the list that was read,
\* the save succeeds and changes the members of the stored list by u alone.
\* (Two toggles of different users give the same like set in every
\* interleaving exactly if each of them does so.)
C14_ConcurrentTogglesCommute ==
  [][\A s \in DOMAIN inflight :
       LET req == inflight[s]
           u == req.user
       IN  ( /\ LikeSave(s)
             /\ req.id \in Kept
             /\ NoRepeat(blogs[req.id].likes)
             /\ \A t \in DOMAIN inflight \ {s} : inflight[t].user # u
             /\ (u \in ToSet(req.doc.likes)) <=> (u \in ToSet(blogs[req.id].likes)) )
             => /\ resp'.code = "ok"
                /\ ToSet(blogs'[req.id].likes) =
                     IF u \in ToSet(blogs[req.id].likes)
                     THEN ToSet(blogs[req.id].likes) \ {u}
                     ELSE ToSet(blogs[req.id].likes) \cup {u}]_vars

(***************************************************************************)
(* Properties of the listings.                                             *)
(***************************************************************************)
\* C20: the pagination block of every listing answered for a page >= 1 and a
\* limit L in 1..50 has total the number of records that match the filter
\* (published posts, of the category asked for; none for the reading
\* history), totalPages the least n with n * L >= total, hasNext exactly if
\* page < totalPages, and hasPrev exactly if page > 1.
C20_PaginationBlock ==
  (listing.route # "none" /\ listing.page >= 1 /\ listing.limit \in 1..50)
    => /\ listing.total =
            IF listing.route = "reading-history" THEN 0 ELSE CountPublished(listing.category)
       /\ listing.totalPages * listing.limit >= listing.total
       /\ listing.totalPages >= 0
       /\ listing.totalPages > 0 => (listing.totalPages - 1) * listing.limit < listing.total
       /\ listing.hasNext <=> (listing.page < listing.totalPages)
       /\ listing.hasPrev <=> (listing.page > 1)

(***************************************************************************)
(* Properties of creation, deletion and approval.                          *)
(***************************************************************************)
\* C23: a successful create request stores a post with status pending, the
\* caller as author, 0 views, no likes and no comments; and a post that no
\* admin has approved never matches the filter of the public listings
\* (status published).
C23_NewPostPendingUntilApproved ==
  [][/\ \A c \in Callers, t \in CreateTitles :
          (Create(c, t) /\ resp'.code = "ok")
            => /\ resp'.id \in DOMAIN blogs' \ Existing
               /\ blogs'[resp'.id].status = "pending"
               /\ blogs'[resp'.id].author = c
               /\ blogs'[resp'.id].views = 0
               /\ blogs'[resp'.id].likes = <<>>
               /\ blogs'[resp'.id].comments = <<>>
     /\ \A b \in DOMAIN blogs' :
          blogs'[b].approvedBy = NoUser => blogs'[b].status # "published"]_vars

\* C27: every published post has a publish timestamp, an approving admin and
\* an approval timestamp.
C27_PublishedMeansApproved ==
  \A b \in Existing :
    blogs[b].status = "published"
      => /\ blogs[b].publishedAt # NoDate
         /\ blogs[b].approvedBy # NoUser
         /\ blogs[b].approvedAt # NoDate

\* C26: the stored read time of every post is ceil(pieces / 200) of its
\* present content, pieces being the number of space-separated pieces.
C26_ReadTimeFollowsContent ==
  \A b \in Existing :
    LET pieces == SplitLength(blogs[b].content)
    IN  /\ blogs[b].readTime * 200 >= pieces
        /\ (blogs[b].readTime - 1) * 200 < pieces

\* C29: a step changes the like list or the comment list of a post only
\* when the stored status of that post is published, whatever requests
\* overlap.
C29_EngagementOnlyWhilePublished ==
  [][\A b \in Kept :
       (blogs'[b].likes # blogs[b].likes \/ blogs'[b].comments # blogs[b].comments)
         => blogs[b].status = "published"]_vars

\* C28: of overlapping approve and reject requests on one pending post at
\* most one succeeds and notifies: every successful moderation write acts on
\* a post stored as pending, and a rejected post never carries the approver
\* or the publication date of another request.
C28_OneModerationWins ==
  [][\A b \in Kept :
       /\ (resp'.op \in {"approve", "reject"} /\ resp'.id = b /\ blogs'[b] # blogs[b])
            => blogs[b].status = "pending"
       /\ (resp'.mail # "none" /\ resp'.id = b /\ inflight' # inflight)
            => blogs[b].status = "pending"
       /\ blogs'[b].status = "rejected"
            => blogs'[b].approvedBy = NoUser /\ blogs'[b].publishedAt = NoDate]_vars

\* C30: an admin's request on the admin's own account fails and leaves the
\* record as it was, and after any interleaving of toggle-status and
\* role-change requests some active admin remains.
C30_ActiveAdminRemains ==
  /\ \A c \in DOMAIN inflight :
       inflight[c].id = c
         => /\ HandleUserRequest(inflight[c]).code # "ok"
            /\ HandleUserRequest(inflight[c]).users = users
  /\ \E u \in DOMAIN users : users[u].role = "admin" /\ users[u].isActive

Deleted == used \ Existing
BodyAccepted(body) ==
  TitleAccepted(body) /\ (body.content = {} \/ Len(Elem(body.content)) >= ContentMin)

\* C24 as stated: the delete request of the owner or an admin succeeds from
\* any status and removes the post; every request of an authenticated (for
\* the admin routes: admin) caller that names a deleted post is answered
\* NotFound and changes nothing.
C24_DeletedIdAlwaysNotFound ==
  /\ \A c \in Users, id \in Existing :
       (Protect(c) /\ (IsAdmin(c) \/ blogs[id].author = c))
         => DeleteBlog(c, id) = Result("ok", [b \in Existing \ {id} |-> blogs[b]])
  /\ \A c \in Users, id \in Deleted :
       /\ Protect(c)
            => /\ DeleteBlog(c, id) = Result("NotFound", blogs)
               /\ LikeBlog(c, id) = Result("NotFound", blogs)
               /\ CommentBlog(c, id, "nice") = Result("NotFound", blogs)
               /\ UpdateBlog(c, id, EmptyBody) = Result("NotFound", blogs)
       /\ ActiveAdmin(c)
            => /\ AdminDeleteBlog(c, id) = Result("NotFound", blogs)
               /\ ToggleVisibilityBlog(c, id) = Result("NotFound", blogs)
               /\ ApproveBlog(c, id, "absent") = Result("NotFound", blogs)
               /\ \A reason \in Reasons : RejectBlog(c, id, reason) = Result("NotFound", blogs)

\* C24 amended: the delete request of the owner or an admin, on either
\* delete route, succeeds from any status and removes the post with its
\* comments, every other post staying as it is; every later request that
\* names the deleted post changes nothing and is answered NotFound, except
\* that a request whose body fails validation (comment text, update body,
\* approve feedback, reject reason) is answered ValidationFailed.
C24_DeleteThenNotFound ==
  /\ \A c \in Users, id \in Existing :
       /\ (Protect(c) /\ (IsAdmin(c) \/ blogs[id].author = c))
            => DeleteBlog(c, id) = Result("ok", [b \in Existing \ {id} |-> blogs[b]])
       /\ ActiveAdmin(c)
            => AdminDeleteBlog(c, id) = Result("ok", [b \in Existing \ {id} |-> blogs[b]])
  /\ \A c \in Users, id \in Deleted :
       /\ Protect(c)
            => /\ DeleteBlog(c, id) = Result("NotFound", blogs)
               /\ LikeBlog(c, id) = Result("NotFound", blogs)
               /\ \A content \in CommentTexts :
                    CommentBlog(c, id, content) =
                      Result(IF ContentAccepted(content) THEN "NotFound"
                             ELSE "ValidationFailed", blogs)
               /\ \A body \in DeleteBodies \cup Bodies :
                    UpdateBlog(c, id, body) =
                      Result(IF BodyAccepted(body) THEN "NotFound"
                             ELSE "ValidationFailed", blogs)
       /\ ActiveAdmin(c)
            => /\ AdminDeleteBlog(c, id) = Result("NotFound", blogs)
               /\ ToggleVisibilityBlog(c, id) = Result("NotFound", blogs)
               /\ \A fb \in Feedbacks :
                    ApproveBlog(c, id, fb) =
                      Result(IF fb = "number" THEN "ValidationFailed" ELSE "NotFound", blogs)
               /\ \A reason \in Reasons :
                    RejectBlog(c, id, reason) =
                      Result(IF ReasonAccepted(reason) THEN "NotFound"
                             ELSE "ValidationFailed", blogs)
  /\ (resp.op \in {"delete", "adminDelete"} /\ resp.code = "ok")
       => /\ resp.id \in Deleted
          /\ blogs["b2"] = Bystander

\* the post b1, deleted earlier, has just been named by a like request,
\* which was answered NotFound; the other post is in the store with its
\* comment
C24_Witness ==
  /\ resp.op = "like" /\ resp.code = "NotFound"
  /\ resp.id \in Deleted
  /\ "b2" \in Existing /\ Len(blogs["b2"].comments) = 1

(***************************************************************************)
(* Properties of the public reads.                                         *)
(***************************************************************************)
\* C21: every answered listing of posts was run with a limit between 1 and
\* 50 and a page of at least 1 (the trending listing takes no page), and
\* holds at most limit entries.
C21_ListingWithinBounds ==
  listing.route \in {"blogs", "category", "trending"}
    => /\ listing.limit >= 1 /\ listing.limit <= 50
       /\ listing.route # "trending" => listing.page >= 1
       /\ Len(listing.data) <= listing.limit

\* C22: every post in the answer of the public listing, the category
\* listing and the trending listing is published when the listing is read;
\* a get-by-slug request answered with success found a published post, and
\* one for a slug that no published post has is answered NotFound and
\* changes no post.
C22_PublicReadsOnlyPublished ==
  [][/\ (resp'.op = "list" /\ resp'.code = "ok")
          => \A i \in 1..Len(listing'.data) :
               /\ listing'.data[i] \in Existing
               /\ blogs[listing'.data[i]].status = "published"
     /\ \A c \in Callers, slug \in ReadSlugs :
          View(c, slug)
            => IF \E b \in Existing : blogs[b].slug = slug /\ blogs[b].status = "published"
               THEN resp'.code = "ok" /\ blogs[resp'.id].status = "published"
               ELSE resp'.code = "NotFound" /\ blogs' = blogs]_vars

\* a reader has listed the posts, getting the one published post, and then
\* asked for the hidden post by its slug, which was answered NotFound, the
\* views of the hidden post staying 0
C22_Witness ==
  /\ resp.op = "view" /\ resp.code = "NotFound"
  /\ blogs["b1"].status = "hidden" /\ blogs["b1"].views = 0
  /\ blogs["b2"].status = "published"
  /\ listing.route = "blogs" /\ listing.data = <<"b2">>

\* C25: the answer of the main listing sorted popular is in the order of
\* view count descending and, for equal view counts, like count descending.
C25_PopularOrder ==
  [][\A limit \in {{}, {1}} :
       GetBlogs({}, limit, {}, {"popular"})
         => \A i, j \in 1..Len(listing'.data) :
              i < j
                => LET p == blogs[listing'.data[i]]
                       q == blogs[listing'.data[j]]
                   IN  \/ p.views > q.views
                       \/ p.views = q.views /\ Len(p.likes) >= Len(q.likes)]_vars
====
